---- MODULE Spec2Model ----
(***************************************************************************)
(* State-machine model of src/friendrequest_app.py: the SQLite tables      *)
(* (users, friend_requests, photos, photo_tags), the upload folder, and    *)
(* one action per POST handler.  GET handlers are pure reads of the        *)
(* tables and are modelled as operators named after the local variable     *)
(* that holds the query result (incoming, recent_photos, all_photos, ...). *)
(* The classes of src/arya.py (Counter, HistoryTracker) and the mocks of   *)
(* src/test_database_pool_exhaustion.py and                                *)
(* src/test_oauth_token_refresh_timeout.py are modelled next to it, each   *)
(* with variables of its own and a specification of its own.               *)
(***************************************************************************)
EXTENDS Integers, Sequences, FiniteSets, Bags, TLC

\* ---------------------------------------------------------------- bounds
\* The handlers carry no bound; each specification caps the tables in the
\* actions it is built from.
\* Spec, the whole application: registered users, friend requests, uploads
\* and tag_friends values per upload.
MaxUsers == 3
MaxRequests == 2
MaxPhotos == 1
MaxTagged == 1
\* SpecTimed: the largest value the clock reaches.
MaxClock == 1
\* SpecPhotos, the photo store: users, friend requests, uploads, tag_friends
\* values per upload and the largest value the clock reaches.
PhotoUsers == 2
PhotoRequests == 1
PhotoUploads == 2
PhotoTagged == 2
PhotoClock == 1
\* SpecFaults, the application with failing database statements: users,
\* friend requests, uploads and tag_friends values per upload.
FaultUsers == 2
FaultRequests == 1
FaultUploads == 1
FaultTagged == 1
\* SpecCounter: constructor arguments and reset values lie in
\* -CounterSpan..CounterSpan (one further for reset), steps in 0..CounterStep.
CounterSpan == 2
CounterStep == 2
\* SpecHistory: the largest max_entries, the values passed to record and
\* the number of successful record calls between two clears.
HistoryMax == 2
HistoryValues == 2
HistoryCalls == 4
\* SpecPool: threads using the pool, the largest max_connections and the
\* number of connections closed by the threads that hold them.
PoolCallers == 3
PoolMax == 2
PoolClosed == 1
\* SpecRace: server threads handling send_request at once, and users.
RaceWorkers == 2
RaceUsers == 2
\* SpecOAuth: asyncio tasks sharing the client and refreshes started.
OAuthTasks == 2
OAuthAttempts == 3
\* SpecLedger, the friend-request ledger alone: users and friend requests.
LedgerUsers == 2
LedgerRequests == 2

\* ------------------------------------------------------------- constants
\* LIMIT 12 of the dashboard's recent-photos query.
RecentLimit == 12

ALLOWED_EXTENSIONS == {"png", "jpg", "jpeg", "gif", "webp"}

VARIABLES
    users,            \* table users: sequence of rows, id = position (AUTOINCREMENT, no delete)
    friend_requests,  \* table friend_requests: sequence of rows, id = position
    photos,           \* table photos: set of rows (rows are deleted by delete_photo)
    photos_seq,       \* sqlite_sequence entry of photos: the largest id ever assigned
    photo_tags,       \* table photo_tags: bag of rows <<photo_id, user_id>>
    uploads,          \* the file names present in UPLOAD_FOLDER
    now,              \* the value datetime.utcnow() last returned
    request,          \* the request handled last: route, session["user_id"], URL arguments
                      \* (and, for an upload, the tag_friends list of the form)
    response,         \* what that request produced: the flashed message, or "500"
    workers,          \* send_request calls in flight on connections of their own
    counter,          \* a Counter of src/arya.py and the outcome of its last call
    history,          \* a HistoryTracker of src/arya.py and its record/clear calls
    pool,             \* a MockDatabasePool
    callers,          \* the threads that use the pool
    oauth,            \* a MockOAuthClient
    tasks             \* the asyncio tasks that use the client

vars == <<users, friend_requests, photos, photos_seq, photo_tags, uploads, now,
          request, response, workers, counter, history, pool, callers, oauth,
          tasks>>

\* The state outside the Flask application's sequential request handling.
others == <<workers, counter, history, pool, callers, oauth, tasks>>

db == <<users, friend_requests, photos, photos_seq, photo_tags>>

Range(s) == {s[i] : i \in 1..Len(s)}

Min(a, b) == IF a < b THEN a ELSE b

\* ------------------------------------------------------------ form input
\* Names a registration form can carry; position k is the k-th fresh name.
Usernames == <<"ann", "bob", "cyd", "dee", "eve", "fay">>

\* str.strip() on the form values the model submits.
strip(s) == IF s = " " THEN "" ELSE s

\* datetime.utcnow(): the wall clock read by a handler, never behind the
\* previous read and possibly equal to it (the clock's resolution is finite).
utcnow == {now, now + 1}

\* ------------------------------------------------------------------ auth
\* login(): the users row matching username and password, as a set (empty
\* when the credentials match no row).
login(username, password) ==
    {u \in Range(users) : u.username = username /\ u.password = password}

\* The values session["user_id"] can hold behind @login_required.
session_uids ==
    {u.id : u \in UNION {login(v.username, v.password) : v \in Range(users)}}

\* -------------------------------------------------------------- register
register(username, password) ==
    /\ request' = [route |-> "register", uid |-> 0, arg |-> <<>>]
    /\ IF strip(username) = "" \/ strip(password) = ""
       THEN /\ response' = "Username and password are required."
            /\ UNCHANGED users
       ELSE IF \E u \in Range(users) : u.username = strip(username)
       THEN /\ response' = "Username already taken."
            /\ UNCHANGED users
       ELSE \* the joined column is read by no query of the model and is left out
            /\ users' = Append(users,
                   [id |-> Len(users) + 1, username |-> strip(username),
                    password |-> strip(password)])
            /\ response' = "Account created! Please log in."
    /\ UNCHANGED <<friend_requests, photos, photos_seq, photo_tags, uploads, now>>
    /\ UNCHANGED others

\* ------------------------------------------------------- friend requests
\* Mutant of existing: the duplicate check sees only requests still pending.
existing_pending(uid, receiver_id) ==
    {r \in Range(friend_requests) :
        r.sender_id = uid /\ r.receiver_id = receiver_id /\ r.status = "pending"}

\* Mutant of existing: the duplicate check ignores the direction of the request.
existing_either_way(uid, receiver_id) ==
    {r \in Range(friend_requests) :
        {r.sender_id, r.receiver_id} = {uid, receiver_id}}

\* SELECT id FROM friend_requests WHERE sender_id = ? AND receiver_id = ?
existing(uid, receiver_id) ==
    {r \in Range(friend_requests) :
        r.sender_id = uid /\ r.receiver_id = receiver_id}

\* Mutant of user_exists: the foreign keys are not enforced.
user_exists_unchecked(id) == TRUE

\* REFERENCES users(id) with PRAGMA foreign_keys = ON.
user_exists(id) == \E u \in Range(users) : u.id = id

\* Mutant of self_request: the self-request check is missing.
self_request_unchecked(uid, receiver_id) == FALSE

\* if receiver_id == uid
self_request(uid, receiver_id) == receiver_id = uid

send_request(uid, receiver_id) ==
    /\ request' = [route |-> "send_request", uid |-> uid, arg |-> <<receiver_id>>]
    /\ IF self_request(uid, receiver_id)
       THEN /\ response' = "You cannot send a friend request to yourself."
            /\ UNCHANGED <<friend_requests, now>>
       ELSE IF existing(uid, receiver_id) # {}
       THEN /\ response' = "Friend request already sent."
            /\ UNCHANGED <<friend_requests, now>>
       ELSE IF ~user_exists(receiver_id)
       THEN \* the INSERT violates the foreign key: IntegrityError, no commit
            /\ response' = "500"
            /\ UNCHANGED <<friend_requests, now>>
       ELSE /\ \E t \in utcnow :
                 /\ now' = t
                 /\ friend_requests' = Append(friend_requests,
                        [id |-> Len(friend_requests) + 1, sender_id |-> uid,
                         receiver_id |-> receiver_id, status |-> "pending",
                         created_at |-> t])
            /\ response' = "Friend request sent!"
    /\ UNCHANGED <<users, photos, photos_seq, photo_tags, uploads>>
    /\ UNCHANGED others

\* Mutant of req: the lookup by id alone, without AND receiver_id = ?.
req_by_id(req_id, uid) ==
    {r \in Range(friend_requests) : r.id = req_id}

\* SELECT * FROM friend_requests WHERE id = ? AND receiver_id = ?
req(req_id, uid) ==
    {r \in Range(friend_requests) : r.id = req_id /\ r.receiver_id = uid}

\* Mutant of new_status: a reject puts the request back to pending.
new_status_reopen(action) == IF action = "accept" THEN "accepted" ELSE "pending"

\* new_status = "accepted" if action == "accept" else "rejected"
new_status(action) == IF action = "accept" THEN "accepted" ELSE "rejected"

respond_request(uid, req_id, action) ==
    /\ request' = [route |-> "respond_request", uid |-> uid,
                   arg |-> <<req_id, action>>]
    /\ IF action \notin {"accept", "reject"}
       THEN /\ response' = "Invalid action."
            /\ UNCHANGED friend_requests
       ELSE IF req(req_id, uid) = {}
       THEN /\ response' = "Request not found."
            /\ UNCHANGED friend_requests
       ELSE \* UPDATE friend_requests SET status = ? WHERE id = ?
            /\ friend_requests' =
                 [friend_requests EXCEPT ![req_id].status = new_status(action)]
            /\ response' = "Friend request " \o new_status(action) \o "."
    /\ UNCHANGED <<users, photos, photos_seq, photo_tags, uploads, now>>
    /\ UNCHANGED others


\* ---------------------------------------------------------------- photos
\* File names are kept as their dot-separated parts: "my cat.PNG" is
\* <<"my cat", "PNG">>; <<>> stands for a request without a file part.
NoFile == <<>>

\* str.lower() on the extensions the model submits.
lower(s) == IF s = "PNG" THEN "png" ELSE s

allowed_file(filename) ==
    /\ Len(filename) >= 2
    /\ lower(filename[Len(filename)]) \in ALLOWED_EXTENSIONS

\* werkzeug's secure_filename on the names the model submits: whitespace
\* becomes an underscore.
secure_filename(filename) ==
    [i \in 1..Len(filename) |->
        IF filename[i] = "my cat" THEN "my_cat" ELSE filename[i]]

\* int(fid) on a form value: the set holding the parsed integer, empty when
\* int() raises ValueError.  Surrounding whitespace is accepted by int().
int(fid) ==
    IF fid = " 1" THEN {1}
    ELSE {n \in 0..(MaxUsers + 1) : ToString(n) = fid}

\* Mutant of primary_key_taken: the table has no primary key.
primary_key_unchecked(tags, row) == FALSE

\* PRIMARY KEY (photo_id, user_id): the INSERT of a row the table holds raises.
primary_key_taken(tags, row) == BagIn(row, tags)

\* The loop "for fid in tagged_ids: try: INSERT INTO photo_tags ... except:
\* pass" run on the rows `tags`: an insert raises, and is skipped, when
\* int() raises, when user_id names no user (foreign key) or when the row
\* exists (primary key).
RECURSIVE tag_friends(_, _, _)
tag_friends(tags, photo_id, tagged_ids) ==
    IF tagged_ids = <<>> THEN tags
    ELSE LET fid == Head(tagged_ids)
             raises == \/ int(fid) = {}
                       \/ \E n \in int(fid) :
                            \/ ~user_exists(n)
                            \/ primary_key_taken(tags, <<photo_id, n>>)
             row == {<<photo_id, n>> : n \in int(fid)}
         IN  tag_friends(IF raises THEN tags ELSE tags (+) SetToBag(row),
                         photo_id, Tail(tagged_ids))

upload_photo(uid, file, caption, tagged_ids) ==
    /\ request' = [route |-> "upload_photo", uid |-> uid, arg |-> <<>>,
                   tag_friends |-> tagged_ids]
    /\ IF file = NoFile \/ file = <<"">>
       THEN /\ response' = "Please select a photo to upload."
            /\ UNCHANGED <<photos, photos_seq, photo_tags, uploads, now>>
       ELSE IF ~allowed_file(file)
       THEN /\ response' = "File type not allowed. Use PNG, JPG, GIF, or WEBP."
            /\ UNCHANGED <<photos, photos_seq, photo_tags, uploads, now>>
       ELSE /\ \E t1 \in utcnow :
               \E t2 \in {t1, t1 + 1} :
                 LET unique_name == <<t1, secure_filename(file)>>
                     photo_id == photos_seq + 1
                 IN  /\ uploads' = uploads \cup {unique_name}
                     /\ photos' = photos \cup
                            {[id |-> photo_id, uploader_id |-> uid,
                              filename |-> unique_name, caption |-> strip(caption),
                              uploaded_at |-> t2]}
                     /\ photos_seq' = photo_id
                     /\ photo_tags' = tag_friends(photo_tags, photo_id, tagged_ids)
                     /\ now' = t2
            /\ response' = "Photo uploaded successfully!"
    /\ UNCHANGED <<users, friend_requests>>
    /\ UNCHANGED others

\* Mutant of delete_tags: the tag rows are left in the table.
delete_tags_skipped(tags, photo_id) == tags

\* Mutant of delete_tags: the DELETE has no WHERE clause.
delete_tags_all(tags, photo_id) == EmptyBag

\* DELETE FROM photo_tags WHERE photo_id = ?
delete_tags(tags, photo_id) ==
    [pt \in {x \in DOMAIN tags : x[1] # photo_id} |-> tags[pt]]

\* Mutant of photo: the lookup by id alone, the owner is not compared.
photo_by_id(photo_id, uid) == {p \in photos : p.id = photo_id}

\* SELECT * FROM photos WHERE id = ? AND uploader_id = ?
photo(photo_id, uid) ==
    {p \in photos : p.id = photo_id /\ p.uploader_id = uid}

delete_photo(uid, photo_id) ==
    /\ request' = [route |-> "delete_photo", uid |-> uid, arg |-> <<photo_id>>]
    /\ IF photo(photo_id, uid) = {}
       THEN /\ response' = "Photo not found or permission denied."
            /\ UNCHANGED <<photos, photo_tags, uploads>>
       ELSE /\ uploads' = uploads \ {p.filename : p \in photo(photo_id, uid)}
            /\ photo_tags' = delete_tags(photo_tags, photo_id)
            /\ photos' = {p \in photos : p.id # photo_id}
            /\ response' = "Photo deleted."
    /\ UNCHANGED <<users, friend_requests, photos_seq, now>>
    /\ UNCHANGED others


\* upload_photo() when the database raises after file.save (the INSERT or
\* the commit fails, e.g. sqlite3.OperationalError "database is locked"): no
\* except surrounds them, the request ends as a 500 and the connection is
\* closed without a commit, so no row is kept; the saved file is.
upload_photo_db_error(uid, file, caption, tagged_ids) ==
    /\ file # NoFile /\ file # <<"">> /\ allowed_file(file)
    /\ request' = [route |-> "upload_photo", uid |-> uid, arg |-> <<>>,
                   tag_friends |-> tagged_ids]
    /\ \E t1 \in utcnow :
          /\ uploads' = uploads \cup {<<t1, secure_filename(file)>>}
          /\ now' = t1
    /\ response' = "500"
    /\ UNCHANGED db
    /\ UNCHANGED others

\* delete_photo() when the database raises after os.remove (a DELETE or the
\* commit fails): the rows stay, the file is gone.
delete_photo_db_error(uid, photo_id) ==
    /\ photo(photo_id, uid) # {}
    /\ request' = [route |-> "delete_photo", uid |-> uid, arg |-> <<photo_id>>]
    /\ uploads' = uploads \ {p.filename : p \in photo(photo_id, uid)}
    /\ response' = "500"
    /\ UNCHANGED <<db, now>>
    /\ UNCHANGED others

\* ----------------------------------------------------------------- views
\* The rows of `rows` in the orders ORDER BY col DESC can return them: rows
\* with equal values of the column come in any order.
order_by_desc(rows, col) ==
    {s \in [1..Cardinality(rows) -> rows] :
        /\ \A x \in rows : \E i \in 1..Cardinality(rows) : s[i] = x
        /\ \A i, j \in 1..Cardinality(rows) : i < j => s[i][col] >= s[j][col]}

\* SELECT CASE WHEN sender_id = ? THEN receiver_id ELSE sender_id END AS fid
\* FROM friend_requests WHERE (sender_id = ? OR receiver_id = ?) AND status = 'accepted'
friend_ids(uid) ==
    LET rows == SelectSeq(friend_requests, LAMBDA r :
                    (r.sender_id = uid \/ r.receiver_id = uid) /\ r.status = "accepted")
    IN  [i \in 1..Len(rows) |->
            IF rows[i].sender_id = uid THEN rows[i].receiver_id ELSE rows[i].sender_id]

\* Mutant of fids: the friend-id query without its status = 'accepted' filter.
fids_any_status(uid) ==
    LET rows == SelectSeq(friend_requests, LAMBDA r :
                    r.sender_id = uid \/ r.receiver_id = uid)
    IN  [i \in 1..Len(rows) |->
            IF rows[i].sender_id = uid THEN rows[i].receiver_id ELSE rows[i].sender_id]
        \o <<uid>>

\* Mutant of fids: the session user's own id is not appended.
fids_friends_only(uid) == friend_ids(uid)

\* fids = [row["fid"] for row in friend_ids] + [uid]
fids(uid) == friend_ids(uid) \o <<uid>>

username_of(id) == (CHOOSE u \in Range(users) : u.id = id).username

\* photos JOIN users WHERE p.uploader_id IN (fids)
photos_in(ids) ==
    {[id |-> p.id, uploader_id |-> p.uploader_id, filename |-> p.filename,
      caption |-> p.caption, uploaded_at |-> p.uploaded_at,
      username |-> username_of(p.uploader_id)] :
        p \in {q \in photos : q.uploader_id \in Range(ids) /\ user_exists(q.uploader_id)}}

\* photos(): the results the /photos query can return for session user uid.
all_photos(uid) == order_by_desc(photos_in(fids(uid)), "uploaded_at")

\* dashboard(): the same query with LIMIT 12.
recent_photos(uid) ==
    {SubSeq(s, 1, Min(RecentLimit, Len(s))) :
        s \in order_by_desc(photos_in(fids(uid)), "uploaded_at")}

\* dashboard(): SELECT fr.id, u.username, fr.created_at FROM friend_requests
\* fr JOIN users u ON u.id = fr.sender_id WHERE fr.receiver_id = ? AND
\* fr.status = 'pending'
incoming_rows(uid) ==
    {[id |-> r.id, username |-> username_of(r.sender_id),
      created_at |-> r.created_at] :
        r \in {q \in Range(friend_requests) :
                 q.receiver_id = uid /\ q.status = "pending"
                    /\ user_exists(q.sender_id)}}

\* Mutant of incoming: the rows come oldest first.
incoming_oldest_first(uid) ==
    {[i \in DOMAIN s |-> s[Len(s) + 1 - i]] :
        s \in order_by_desc(incoming_rows(uid), "created_at")}

\* dashboard(): pending incoming requests, ORDER BY fr.created_at DESC.
incoming(uid) == order_by_desc(incoming_rows(uid), "created_at")

\* Mutant of friends_list: only the requests uid sent are looked at.
friends_list_sent_only(uid) ==
    {[id |-> r.receiver_id, username |-> username_of(r.receiver_id),
      direction |-> "You sent", status |-> r.status] :
        r \in {q \in Range(friend_requests) :
                 q.sender_id = uid /\ q.status = "accepted"}}

\* Mutant of friends_list: the status = 'accepted' filter is missing.
friends_list_any_status(uid) ==
    {[id |-> IF r.sender_id = uid THEN r.receiver_id ELSE r.sender_id,
      username |-> username_of(IF r.sender_id = uid THEN r.receiver_id ELSE r.sender_id),
      direction |-> "", status |-> r.status] :
        r \in {q \in Range(friend_requests) :
                 q.sender_id = uid \/ q.receiver_id = uid}}

\* friends(): the accepted requests of uid joined with the other user.
friends_list(uid) ==
    {[id |-> IF r.sender_id = uid THEN r.receiver_id ELSE r.sender_id,
      username |-> username_of(IF r.sender_id = uid THEN r.receiver_id ELSE r.sender_id),
      direction |-> IF r.sender_id = uid THEN "You sent"
                   ELSE username_of(r.sender_id) \o " sent",
      status |-> r.status] :
        r \in {q \in Range(friend_requests) :
                 (q.sender_id = uid \/ q.receiver_id = uid) /\ q.status = "accepted"}}

\* The Friendship View: the ids the friends page lists for uid.
friends_of(uid) == {f.id : f \in friends_list(uid)}

\* photo_detail(): SELECT u.username FROM photo_tags pt JOIN users u ON
\* u.id = pt.user_id WHERE pt.photo_id = ?, as the bag of the names.
tagged(photo_id) ==
    LET rows == {x \in DOMAIN photo_tags : x[1] = photo_id /\ user_exists(x[2])}
    IN  [n \in {username_of(x[2]) : x \in rows} |->
            photo_tags[CHOOSE x \in rows : username_of(x[2]) = n]]

\* Mutant of photo_detail: only the owner and the owner's friends get the page.
photo_detail_gated(uid, photo_id) ==
    LET row == {p \in photos_in(fids(uid)) : p.id = photo_id}
    IN  IF row = {}
        THEN [flash |-> "Photo not found.", photo |-> {}, tagged |-> EmptyBag]
        ELSE [flash |-> "", photo |-> row, tagged |-> tagged(photo_id)]

\* photo_detail(): what the page of photo_id shows to the session user uid.
\* The photo is looked up by id alone (photos JOIN users WHERE p.id = ?);
\* uid takes no part.
photo_detail(uid, photo_id) ==
    LET row == {p \in photos_in([i \in 1..Len(users) |-> users[i].id]) :
                  p.id = photo_id}
    IN  IF row = {}
        THEN [flash |-> "Photo not found.", photo |-> {}, tagged |-> EmptyBag]
        ELSE [flash |-> "", photo |-> row, tagged |-> tagged(photo_id)]

\* fetchall() of a query with no ORDER BY: SQL leaves the order of the rows
\* open, so every order is a possible result.
any_order(rows) ==
    {s \in [1..Cardinality(rows) -> rows] :
        \A x \in rows : \E i \in 1..Cardinality(rows) : s[i] = x}

\* friends(): pending requests sent by uid; the query has no ORDER BY.
sent(uid) ==
    any_order({[id |-> r.id, username |-> username_of(r.receiver_id),
                status |-> r.status, created_at |-> r.created_at] :
                  r \in {q \in Range(friend_requests) :
                           q.sender_id = uid /\ q.status = "pending"}})

\* profile(): SELECT * FROM users WHERE username = ? (at most one row,
\* username is UNIQUE).
profile_user(username) == {u \in Range(users) : u.username = username}

\* profile(): the photos the page of `username` lists for the session user
\* uid, newest first; {} stands for the "User not found." redirect.  The
\* query filters by uploader only: uid and rel play no part in it.
profile_photos(uid, username) ==
    UNION {order_by_desc({p \in photos : p.uploader_id = user.id}, "uploaded_at") :
             user \in profile_user(username)}

\* profile(): the rows fetchone() can hand back as rel, the friend request
\* between the session user uid and the user of the page.  The query has no
\* ORDER BY and no LIMIT, so with a row in each direction SQL leaves open
\* which one comes first; {} stands for None.
rel(uid, username) ==
    UNION {{r \in Range(friend_requests) :
              \/ r.sender_id = uid /\ r.receiver_id = user.id
              \/ r.sender_id = user.id /\ r.receiver_id = uid} :
           user \in profile_user(username)}

\* uploaded_file(): send_from_directory serves the named file of the upload
\* folder to any client (the route has no login_required); {} is the 404.
uploaded_file(filename) == {f \in uploads : f = filename}

\* ------------------------------------------------------------------ spec
\* The application before its first request.
fresh_app ==
    /\ users = <<>>
    /\ friend_requests = <<>>
    /\ photos = {}
    /\ photos_seq = 0
    /\ photo_tags = EmptyBag
    /\ uploads = {}
    /\ now = 0
    /\ request = [route |-> "init", uid |-> 0, arg |-> <<>>]
    /\ response = ""
    /\ workers = <<>>

Init ==
    /\ fresh_app
    /\ counter = <<>>
    /\ history = <<>>
    /\ pool = <<>>
    /\ callers = <<>>
    /\ oauth = <<>>
    /\ tasks = <<>>

\* The form and URL values the model submits.
TagValues == {ToString(n) : n \in 1..(Len(users) + 1)} \cup {" 1", "x"}

TaggedIds == UNION {[1..n -> TagValues] : n \in 0..MaxTagged}

Files == {NoFile, <<"png">>, <<"notes", "txt">>, <<"my cat", "PNG">>,
          <<"my_cat", "PNG">>}

Register ==
    \E k \in 1..(Len(users) + 1), blank \in BOOLEAN, password \in {"", "pw"} :
        /\ register(IF blank THEN " " ELSE Usernames[k], password)
        /\ Len(users') <= MaxUsers

RespondRequest ==
    \E uid \in session_uids, req_id \in 1..(Len(friend_requests) + 1),
       action \in {"accept", "reject", "block"} :
        respond_request(uid, req_id, action)

\* The handlers below run within one reading of the clock: no handler
\* branches on a timestamp.
SendRequest ==
    \E uid \in session_uids, receiver_id \in 1..(Len(users) + 1) :
        /\ send_request(uid, receiver_id)
        /\ Len(friend_requests') <= MaxRequests
        /\ now' = now

UploadPhoto ==
    \E uid \in session_uids, file \in Files :
        /\ allowed_file(file) => photos_seq < MaxPhotos
        /\ \E tagged_ids \in (IF allowed_file(file) THEN TaggedIds ELSE {<<"x">>}) :
             upload_photo(uid, file, "sunset", tagged_ids)
        /\ now' = now

DeletePhoto ==
    \E uid \in session_uids, photo_id \in 1..(photos_seq + 1) :
        delete_photo(uid, photo_id)

\* The friend-request ledger alone.
RegisterLedger ==
    \E k \in 1..(Len(users) + 1), blank \in BOOLEAN, password \in {"", "pw"} :
        /\ register(IF blank THEN " " ELSE Usernames[k], password)
        /\ Len(users') <= LedgerUsers

SendRequestLedger ==
    \E uid \in session_uids, receiver_id \in 1..(Len(users) + 1) :
        /\ send_request(uid, receiver_id)
        /\ Len(friend_requests') <= LedgerRequests
        /\ now' = now

NextLedger ==
    \/ RegisterLedger
    \/ SendRequestLedger
    \/ RespondRequest

SpecLedger == Init /\ [][NextLedger]_vars

\* The ledger with the clock running: created_at differs from row to row.
SendRequestTimed ==
    \E uid \in session_uids, receiver_id \in 1..(Len(users) + 1) :
        /\ send_request(uid, receiver_id)
        /\ Len(friend_requests') <= MaxRequests
        /\ now' <= MaxClock

NextTimed ==
    \/ Register
    \/ SendRequestTimed
    \/ RespondRequest

SpecTimed == Init /\ [][NextTimed]_vars

\* The photo store with the clock running: two users, one friend request,
\* two uploads, tag lists that can name a user twice.
TaggedIdsPhotos == UNION {[1..n -> TagValues] : n \in 0..PhotoTagged}

RegisterPhotos ==
    \E k \in 1..(Len(users) + 1), blank \in BOOLEAN, password \in {"", "pw"} :
        /\ register(IF blank THEN " " ELSE Usernames[k], password)
        /\ Len(users') <= PhotoUsers

SendRequestPhotos ==
    \E uid \in session_uids, receiver_id \in 1..(Len(users) + 1) :
        /\ send_request(uid, receiver_id)
        /\ Len(friend_requests') <= PhotoRequests
        /\ now' = now

UploadPhotoTimed ==
    \E uid \in session_uids, file \in Files :
        /\ allowed_file(file) => photos_seq < PhotoUploads
        /\ \E tagged_ids \in (IF allowed_file(file) THEN TaggedIdsPhotos ELSE {<<"x">>}) :
             upload_photo(uid, file, "sunset", tagged_ids)
        /\ now' <= PhotoClock

NextPhotos ==
    \/ RegisterPhotos
    \/ SendRequestPhotos
    \/ RespondRequest
    \/ UploadPhotoTimed
    \/ DeletePhoto

SpecPhotos == Init /\ [][NextPhotos]_vars

\* The application on a database whose statements can fail.
TaggedIdsFaults == UNION {[1..n -> TagValues] : n \in 0..FaultTagged}

RegisterFaults ==
    \E k \in 1..(Len(users) + 1), blank \in BOOLEAN, password \in {"", "pw"} :
        /\ register(IF blank THEN " " ELSE Usernames[k], password)
        /\ Len(users') <= FaultUsers

SendRequestFaults ==
    \E uid \in session_uids, receiver_id \in 1..(Len(users) + 1) :
        /\ send_request(uid, receiver_id)
        /\ Len(friend_requests') <= FaultRequests
        /\ now' = now

UploadPhotoFaults ==
    \E uid \in session_uids, file \in Files :
        /\ allowed_file(file) => photos_seq < FaultUploads
        /\ \E tagged_ids \in (IF allowed_file(file) THEN TaggedIdsFaults ELSE {<<"x">>}) :
             upload_photo(uid, file, "sunset", tagged_ids)
        /\ now' = now

UploadPhotoDbError ==
    \E uid \in session_uids, file \in Files, tagged_ids \in TaggedIdsFaults :
        /\ upload_photo_db_error(uid, file, "sunset", tagged_ids)
        /\ now' = now

DeletePhotoDbError ==
    \E uid \in session_uids, photo_id \in 1..(photos_seq + 1) :
        delete_photo_db_error(uid, photo_id)

NextFaults ==
    \/ RegisterFaults
    \/ SendRequestFaults
    \/ RespondRequest
    \/ UploadPhotoFaults
    \/ DeletePhoto
    \/ UploadPhotoDbError
    \/ DeletePhotoDbError

SpecFaults == Init /\ [][NextFaults]_vars

\* The whole application.
Next ==
    \/ Register
    \/ SendRequest
    \/ RespondRequest
    \/ UploadPhoto
    \/ DeletePhoto

Spec == Init /\ [][Next]_vars

\* --------------------------------------------------- src/arya.py: Counter
\* Optional[int] is kept as a set: {} is None, {n} is the integer n.
Max(a, b) == IF a > b THEN a ELSE b

\* Counter.__init__: the new object, or {} when the constructor raises
\* ValueError.
Counter(initial, step, min_value, max_value) ==
    IF step <= 0 THEN {}
    ELSE IF \E mn \in min_value, mx \in max_value : mn > mx THEN {}
    ELSE IF \E mn \in min_value : initial < mn THEN {}
    ELSE IF \E mx \in max_value : initial > mx THEN {}
    ELSE {[value |-> initial, step |-> step, min_value |-> min_value,
           max_value |-> max_value, call |-> "__init__", raised |-> ""]}

\* Mutant of clamp_max: the new value is not clamped.
clamp_max_skipped(new, max_value) == new

\* if self._max is not None: new = min(new, self._max)
clamp_max(new, max_value) ==
    IF max_value # {} THEN Min(new, CHOOSE mx \in max_value : TRUE) ELSE new

\* if self._min is not None: new = max(new, self._min)
clamp_min(new, min_value) ==
    IF min_value # {} THEN Max(new, CHOOSE mn \in min_value : TRUE) ELSE new

increment ==
    /\ counter' = [counter EXCEPT
                     !.value = clamp_max(counter.value + counter.step,
                                         counter.max_value),
                     !.call = "increment", !.raised = ""]
    /\ UNCHANGED <<users, friend_requests, photos, photos_seq, photo_tags,
                   uploads, now, request, response, workers, history, pool,
                   callers, oauth, tasks>>

decrement ==
    /\ counter' = [counter EXCEPT
                     !.value = clamp_min(counter.value - counter.step,
                                         counter.min_value),
                     !.call = "decrement", !.raised = ""]
    /\ UNCHANGED <<users, friend_requests, photos, photos_seq, photo_tags,
                   uploads, now, request, response, workers, history, pool,
                   callers, oauth, tasks>>

reset(value) ==
    /\ IF \/ \E mn \in counter.min_value : value < mn
          \/ \E mx \in counter.max_value : value > mx
       THEN counter' = [counter EXCEPT !.call = "reset", !.raised = "ValueError"]
       ELSE counter' = [counter EXCEPT !.value = value, !.call = "reset",
                                      !.raised = ""]
    /\ UNCHANGED <<users, friend_requests, photos, photos_seq, photo_tags,
                   uploads, now, request, response, workers, history, pool,
                   callers, oauth, tasks>>

\* The integers the model passes to the constructor, and Optional[int].
CounterInts == (0 - CounterSpan)..CounterSpan

OptionalInts == {{}} \cup {{n} : n \in CounterInts}

InitCounter ==
    /\ fresh_app
    /\ counter \in UNION {Counter(initial, step, min_value, max_value) :
                             initial \in CounterInts, step \in 0..CounterStep,
                             min_value \in OptionalInts, max_value \in OptionalInts}
    /\ history = <<>>
    /\ pool = <<>>
    /\ callers = <<>>
    /\ oauth = <<>>
    /\ tasks = <<>>

\* A counter without a bound on one side is followed as far as one step
\* beyond the constructor's range.
Increment ==
    /\ increment
    /\ counter'.value <= CounterSpan + CounterStep

Decrement ==
    /\ decrement
    /\ counter'.value >= 0 - CounterSpan - CounterStep

Reset ==
    \E value \in (0 - CounterSpan - 1)..(CounterSpan + 1) : reset(value)

NextCounter ==
    \/ Increment
    \/ Decrement
    \/ Reset

SpecCounter == InitCounter /\ [][NextCounter]_vars

\* -------------------------------------------- src/arya.py: HistoryTracker
\* HistoryTracker.__init__: the new object, or {} when it raises ValueError.
\* entries is self._entries; recorded is what the caller has seen: the
\* entries its record calls returned since its last clear.
HistoryTracker(max_entries) ==
    IF \E n \in max_entries : n <= 0 THEN {}
    ELSE {[entries |-> <<>>, max_entries |-> max_entries, recorded |-> <<>>,
           call |-> "__init__", raised |-> ""]}

\* Mutant of evict: the newest entry is dropped, not the oldest.
evict_newest(entries, max_entries) ==
    IF \E n \in max_entries : Len(entries) >= n
    THEN SubSeq(entries, 1, Len(entries) - 1) ELSE entries

\* if self._max is not None and len(self._entries) >= self._max:
\*     self._entries.pop(0)
evict(entries, max_entries) ==
    IF \E n \in max_entries : Len(entries) >= n THEN Tail(entries) ELSE entries

record(action, value) ==
    /\ IF strip(action) = ""
       THEN history' = [history EXCEPT !.call = "record", !.raised = "ValueError"]
       ELSE LET entry == [action |-> strip(action), value |-> value]
            IN  history' = [history EXCEPT
                    !.entries = Append(evict(history.entries, history.max_entries),
                                       entry),
                    !.recorded = Append(history.recorded, entry),
                    !.call = "record", !.raised = ""]
    /\ UNCHANGED <<users, friend_requests, photos, photos_seq, photo_tags,
                   uploads, now, request, response, workers, counter, pool,
                   callers, oauth, tasks>>

clear ==
    /\ history' = [history EXCEPT !.entries = <<>>, !.recorded = <<>>,
                                  !.call = "clear", !.raised = ""]
    /\ UNCHANGED <<users, friend_requests, photos, photos_seq, photo_tags,
                   uploads, now, request, response, workers, counter, pool,
                   callers, oauth, tasks>>

InitHistory ==
    /\ fresh_app
    /\ counter = <<>>
    /\ history \in UNION {HistoryTracker(max_entries) :
                             max_entries \in {{}} \cup {{n} : n \in 0..HistoryMax}}
    /\ pool = <<>>
    /\ callers = <<>>
    /\ oauth = <<>>
    /\ tasks = <<>>

Record ==
    \E action \in {"inc", "dec", " ", ""}, value \in 1..HistoryValues :
        /\ record(action, value)
        /\ Len(history'.recorded) <= HistoryCalls

NextHistory ==
    \/ Record
    \/ clear

SpecHistory == InitHistory /\ [][NextHistory]_vars

\* ------------------ src/test_database_pool_exhaustion.py: MockDatabasePool
\* MockDatabasePool.__init__.  A MockConnection is known by its
\* connection_id; closed holds the ids of the connections with is_closed set.
MockDatabasePool(max_connections) ==
    [max_connections |-> max_connections, available_connections |-> <<>>,
     active_connections |-> {}, connection_counter |-> 0, is_closed |-> FALSE,
     closed |-> {}]

\* A thread outside a pool call: held are the connections it got and has not
\* returned; the other fields describe its current or last get_connection.
idle_caller ==
    [pc |-> "idle", held |-> {}, expired |-> FALSE, waited |-> FALSE,
     result |-> ""]

\* Mutant of under_limit: one connection more than max_connections is let in.
under_limit_off_by_one(p) == Cardinality(p.active_connections) <= p.max_connections

\* if len(self.active_connections) < self.max_connections
under_limit(p) == Cardinality(p.active_connections) < p.max_connections

\* Mutant of notify_all: no waiting thread is woken.
notify_none(cs) == cs

\* self._condition.notify_all(): every thread in wait() is woken and has to
\* take the lock again before it goes on.
notify_all(cs) ==
    [c \in DOMAIN cs |->
        IF cs[c].pc = "waiting" THEN [cs[c] EXCEPT !.pc = "woken"] ELSE cs[c]]

\* One pass of the "while True" loop of get_connection by thread c, run
\* under the lock, from the threads' state cs; expired says whether
\* elapsed >= timeout at this pass.
loop_pass(c, cs, expired) ==
    /\ IF pool.is_closed
       THEN /\ callers' = [cs EXCEPT ![c].pc = "idle",
                                     ![c].result = "Pool is closed"]
            /\ UNCHANGED pool
       ELSE IF pool.available_connections # <<>>
       THEN LET n == Len(pool.available_connections)
                conn == pool.available_connections[n]
            IN  /\ pool' = [pool EXCEPT
                       !.available_connections = SubSeq(@, 1, n - 1),
                       !.active_connections = @ \cup {conn}]
                /\ callers' = [cs EXCEPT ![c].pc = "idle",
                                         ![c].held = @ \cup {conn},
                                         ![c].result = "conn"]
       ELSE IF under_limit(pool)
       THEN LET conn == pool.connection_counter
            IN  /\ pool' = [pool EXCEPT
                       !.connection_counter = @ + 1,
                       !.active_connections = @ \cup {conn}]
                /\ callers' = [cs EXCEPT ![c].pc = "idle",
                                         ![c].held = @ \cup {conn},
                                         ![c].result = "conn"]
       ELSE IF expired
       THEN /\ callers' = [cs EXCEPT ![c].pc = "idle",
                                     ![c].expired = TRUE,
                                     ![c].result = "TimeoutError"]
            /\ UNCHANGED pool
       ELSE /\ callers' = [cs EXCEPT ![c].pc = "waiting",
                                     ![c].waited = TRUE]
            /\ UNCHANGED pool
    /\ UNCHANGED <<users, friend_requests, photos, photos_seq, photo_tags,
                   uploads, now, request, response, workers, counter, history,
                   oauth, tasks>>

\* get_connection(): thread c enters the call and runs the first pass.  The
\* time spent until the lock is taken counts against the timeout.
get_connection(c, expired) ==
    /\ callers[c].pc = "idle"
    /\ loop_pass(c, [callers EXCEPT ![c].expired = FALSE, ![c].waited = FALSE,
                                    ![c].result = ""], expired)

\* self._condition.wait(remaining_timeout) of thread c ends because the
\* time is up.
wait_timed_out(c) ==
    /\ callers[c].pc = "waiting"
    /\ callers' = [callers EXCEPT ![c].pc = "woken", ![c].expired = TRUE]
    /\ UNCHANGED <<users, friend_requests, photos, photos_seq, photo_tags,
                   uploads, now, request, response, workers, counter, history,
                   pool, oauth, tasks>>

\* Thread c has left wait(), takes the lock again and runs the next pass.
resume(c, expired) ==
    /\ callers[c].pc = "woken"
    /\ loop_pass(c, callers, callers[c].expired \/ expired)

\* return_connection(connection) by thread c for a connection it holds.
return_connection(c, connection) ==
    /\ callers[c].pc = "idle"
    /\ connection \in callers[c].held
    /\ LET cs == [callers EXCEPT ![c].held = @ \ {connection}]
       IN  IF connection \in pool.active_connections
           THEN /\ pool' = [pool EXCEPT
                      !.active_connections = @ \ {connection},
                      !.available_connections =
                          IF connection \notin pool.closed /\ ~pool.is_closed
                          THEN Append(@, connection) ELSE @]
                /\ callers' = notify_all(cs)
           ELSE /\ callers' = cs
                /\ UNCHANGED pool
    /\ UNCHANGED <<users, friend_requests, photos, photos_seq, photo_tags,
                   uploads, now, request, response, workers, counter, history,
                   oauth, tasks>>

\* MockConnection.close() by the thread that holds the connection.
close(c, connection) ==
    /\ callers[c].pc = "idle"
    /\ connection \in callers[c].held
    /\ connection \notin pool.closed
    /\ pool' = [pool EXCEPT !.closed = @ \cup {connection}]
    /\ UNCHANGED <<users, friend_requests, photos, photos_seq, photo_tags,
                   uploads, now, request, response, workers, counter, history,
                   callers, oauth, tasks>>

\* close_all().
close_all ==
    /\ ~pool.is_closed
    /\ pool' = [pool EXCEPT
           !.is_closed = TRUE,
           !.closed = @ \cup pool.active_connections
                        \cup Range(pool.available_connections),
           !.active_connections = {},
           !.available_connections = <<>>]
    /\ callers' = notify_all(callers)
    /\ UNCHANGED <<users, friend_requests, photos, photos_seq, photo_tags,
                   uploads, now, request, response, workers, counter, history,
                   oauth, tasks>>

Callers == 1..PoolCallers

InitPool ==
    /\ fresh_app
    /\ counter = <<>>
    /\ history = <<>>
    /\ pool \in {MockDatabasePool(max_connections) : max_connections \in 1..PoolMax}
    /\ callers = [c \in Callers |-> idle_caller]
    /\ oauth = <<>>
    /\ tasks = <<>>

ReturnConnection(c) ==
    \E connection \in callers[c].held : return_connection(c, connection)

\* The pool makes a new connection only in place of a closed one, so the
\* cap on close() bounds connection_counter.
Close(c) ==
    \E connection \in callers[c].held :
        /\ close(c, connection)
        /\ Cardinality(pool'.closed) <= PoolClosed

NextPool ==
    \/ \E c \in Callers, expired \in BOOLEAN : get_connection(c, expired)
    \/ \E c \in Callers : wait_timed_out(c)
    \/ \E c \in Callers, expired \in BOOLEAN : resume(c, expired)
    \/ \E c \in Callers : ReturnConnection(c)
    \/ \E c \in Callers : Close(c)
    \/ close_all

SpecPool == InitPool /\ [][NextPool]_vars

\* Fair scheduling: a thread that has left wait() gets the lock in the end,
\* and the clock runs, so a wait() that is not notified ends by its timeout.
\* Nothing makes a thread call get_connection or return_connection.
SpecPoolFair ==
    /\ SpecPool
    /\ \A c \in Callers : WF_vars(\E expired \in BOOLEAN : resume(c, expired))
    /\ \A c \in Callers : WF_vars(wait_timed_out(c))

\* ---------------- src/test_oauth_token_refresh_timeout.py: MockOAuthClient
\* MockOAuthClient.__init__; access_token is a set, {} is None.
MockOAuthClient ==
    [access_token |-> {}, refresh_in_progress |-> FALSE, refresh_attempts |-> 0]

\* A task outside refresh_access_token: seen is the value of refresh_attempts
\* it read before its last call, result the token or exception it got.
idle_task == [pc |-> "idle", seen |-> 0, result |-> ""]

\* What ends the body of the try block: the token is returned, or the
\* session's __aenter__, the request or the task's cancellation raises.
Outcomes == {"token", "Setup failed", "TimeoutError", "ClientError",
             "CancelledError"}

\* Mutant of finally: the flag is left set.
finally_skipped(o) == o

\* finally: self.refresh_in_progress = False
finally(o) == [o EXCEPT !.refresh_in_progress = FALSE]

\* refresh_access_token() by task t up to its first await: nothing awaits
\* between the test of the flag and its assignment, so the event loop runs
\* them as one step.
refresh_access_token(t) ==
    /\ tasks[t].pc = "idle"
    /\ IF oauth.refresh_in_progress
       THEN /\ tasks' = [tasks EXCEPT
                  ![t].seen = oauth.refresh_attempts,
                  ![t].result = "Token refresh already in progress"]
            /\ UNCHANGED oauth
       ELSE /\ oauth' = [oauth EXCEPT !.refresh_in_progress = TRUE,
                                      !.refresh_attempts = @ + 1]
            /\ tasks' = [tasks EXCEPT ![t].pc = "in flight",
                                      ![t].seen = oauth.refresh_attempts,
                                      ![t].result = ""]
    /\ UNCHANGED <<users, friend_requests, photos, photos_seq, photo_tags,
                   uploads, now, request, response, workers, counter, history,
                   pool, callers>>

\* The rest of refresh_access_token() of task t: the try block ends with
\* outcome and the finally clause runs.  The token's time suffix is left out.
refresh_done(t, outcome) ==
    /\ tasks[t].pc = "in flight"
    /\ oauth' = finally(IF outcome = "token"
                        THEN [oauth EXCEPT !.access_token = {"new_token"}]
                        ELSE oauth)
    /\ tasks' = [tasks EXCEPT ![t].pc = "idle", ![t].result = outcome]
    /\ UNCHANGED <<users, friend_requests, photos, photos_seq, photo_tags,
                   uploads, now, request, response, workers, counter, history,
                   pool, callers>>

Tasks == 1..OAuthTasks

InitOAuth ==
    /\ fresh_app
    /\ counter = <<>>
    /\ history = <<>>
    /\ pool = <<>>
    /\ callers = <<>>
    /\ oauth = MockOAuthClient
    /\ tasks = [t \in Tasks |-> idle_task]

RefreshAccessToken ==
    \E t \in Tasks :
        /\ refresh_access_token(t)
        /\ oauth'.refresh_attempts <= OAuthAttempts

RefreshDone ==
    \E t \in Tasks, outcome \in Outcomes : refresh_done(t, outcome)

NextOAuth ==
    \/ RefreshAccessToken
    \/ RefreshDone

SpecOAuth == InitOAuth /\ [][NextOAuth]_vars

\* ------------------------------- send_request on concurrent server threads
\* app.run serves each request on a thread of its own; every thread opens
\* its own connection (get_db) to the one database file.  A thread's
\* send_request is three statements: the SELECT, the INSERT, which opens a
\* transaction and takes the file's write lock, and the commit, which
\* publishes the row and releases the lock.
idle_worker == [pc |-> "idle", uid |-> 0, receiver_id |-> 0, response |-> ""]

\* The write lock of the database file is held by a connection between its
\* INSERT and its commit.
write_locked == \E w \in DOMAIN workers : workers[w].pc = "commit"

\* A request for send_request reaches thread w with the session user uid.
send_request_begin(w, uid, receiver_id) ==
    /\ workers[w].pc \in {"idle", "done"}
    /\ workers' = [workers EXCEPT ![w] = [pc |-> "check", uid |-> uid,
                     receiver_id |-> receiver_id, response |-> ""]]
    /\ UNCHANGED <<users, friend_requests, photos, photos_seq, photo_tags,
                   uploads, now, request, response, counter, history, pool,
                   callers, oauth, tasks>>

\* Thread w up to the test of existing: the self-request check and the
\* SELECT, which reads the committed rows.
send_request_check(w) ==
    /\ workers[w].pc = "check"
    /\ LET uid == workers[w].uid
           receiver_id == workers[w].receiver_id
       IN  workers' = [workers EXCEPT ![w] =
             IF self_request(uid, receiver_id)
             THEN [@ EXCEPT !.pc = "done",
                     !.response = "You cannot send a friend request to yourself."]
             ELSE IF existing(uid, receiver_id) # {}
             THEN [@ EXCEPT !.pc = "done",
                            !.response = "Friend request already sent."]
             ELSE [@ EXCEPT !.pc = "insert"]]
    /\ UNCHANGED <<users, friend_requests, photos, photos_seq, photo_tags,
                   uploads, now, request, response, counter, history, pool,
                   callers, oauth, tasks>>

\* Thread w's INSERT.  While another connection holds the write lock the
\* statement waits; it goes on when the lock is released, or gives up after
\* the connection's busy timeout (timed_out) with sqlite3.OperationalError.
\* With the lock, the row is checked against UNIQUE(sender_id, receiver_id)
\* and the foreign key: a violation raises sqlite3.IntegrityError.  No
\* except surrounds the statement, so either exception ends the request as
\* a 500 and the connection is closed without a commit.
send_request_insert(w, timed_out) ==
    /\ workers[w].pc = "insert"
    /\ timed_out <=> write_locked
    /\ LET uid == workers[w].uid
           receiver_id == workers[w].receiver_id
       IN  workers' = [workers EXCEPT ![w] =
             IF \/ timed_out
                \/ existing(uid, receiver_id) # {}
                \/ ~user_exists(receiver_id)
             THEN [@ EXCEPT !.pc = "done", !.response = "500"]
             ELSE [@ EXCEPT !.pc = "commit"]]
    /\ UNCHANGED <<users, friend_requests, photos, photos_seq, photo_tags,
                   uploads, now, request, response, counter, history, pool,
                   callers, oauth, tasks>>

\* Thread w's commit and flash.
send_request_commit(w) ==
    /\ workers[w].pc = "commit"
    /\ \E t \in utcnow :
          /\ now' = t
          /\ friend_requests' = Append(friend_requests,
                 [id |-> Len(friend_requests) + 1,
                  sender_id |-> workers[w].uid,
                  receiver_id |-> workers[w].receiver_id,
                  status |-> "pending", created_at |-> t])
    /\ workers' = [workers EXCEPT ![w].pc = "done",
                                  ![w].response = "Friend request sent!"]
    /\ UNCHANGED <<users, photos, photos_seq, photo_tags, uploads, request,
                   response, counter, history, pool, callers, oauth, tasks>>

Workers == 1..RaceWorkers

InitRace ==
    /\ users = <<>>
    /\ friend_requests = <<>>
    /\ photos = {}
    /\ photos_seq = 0
    /\ photo_tags = EmptyBag
    /\ uploads = {}
    /\ now = 0
    /\ request = [route |-> "init", uid |-> 0, arg |-> <<>>]
    /\ response = ""
    /\ workers = [w \in Workers |-> idle_worker]
    /\ counter = <<>>
    /\ history = <<>>
    /\ pool = <<>>
    /\ callers = <<>>
    /\ oauth = <<>>
    /\ tasks = <<>>

RegisterRace ==
    \E k \in 1..(Len(users) + 1), blank \in BOOLEAN, password \in {"", "pw"} :
        /\ register(IF blank THEN " " ELSE Usernames[k], password)
        /\ Len(users') <= RaceUsers

SendRequestBegin ==
    \E w \in Workers, uid \in session_uids, receiver_id \in 1..(Len(users) + 1) :
        send_request_begin(w, uid, receiver_id)

SendRequestCommit ==
    \E w \in Workers :
        /\ send_request_commit(w)
        /\ now' = now

NextRace ==
    \/ RegisterRace
    \/ SendRequestBegin
    \/ \E w \in Workers : send_request_check(w)
    \/ \E w \in Workers, timed_out \in BOOLEAN : send_request_insert(w, timed_out)
    \/ SendRequestCommit

SpecRace == InitRace /\ [][NextRace]_vars

\* ---------------------------------------------------------------- claims
\* C1: the /photos listing and the dashboard's recent photos of a viewer V
\* never hold a photo whose owner is neither V nor a friend of V.
C1_FeedOnlyOwnAndFriends ==
    \A V \in session_uids :
        \A feed \in all_photos(V) \cup recent_photos(V) :
            \A i \in 1..Len(feed) :
                feed[i].uploader_id \in {V} \cup friends_of(V)

\* C1 witness: one photo is listed for a friend of its owner and is kept
\* from a user who has a pending or rejected request with the owner.
C1_Witness ==
    \E V \in session_uids, W \in session_uids, p \in photos :
        /\ p.uploader_id \in friends_of(W)
        /\ \E feed \in all_photos(W) : \E i \in 1..Len(feed) : feed[i].id = p.id
        /\ V # p.uploader_id
        /\ \E r \in Range(friend_requests) :
              /\ {r.sender_id, r.receiver_id} = {V, p.uploader_id}
              /\ r.status # "accepted"
        /\ \A feed \in all_photos(V) : \A i \in 1..Len(feed) : feed[i].id # p.id

\* The request row a respond_request call names, once the call was handled.
responded == friend_requests[request.arg[1]]

accepted_now ==
    request.route = "respond_request" /\ response = "Friend request accepted."

rejected_now ==
    request.route = "respond_request" /\ response = "Friend request rejected."

\* C2: a request's status changes at most once: a request that is accepted
\* or rejected keeps that status in every later step.
C2_StatusChangesAtMostOnce ==
    [][\A i \in 1..Len(friend_requests) :
          friend_requests[i].status # "pending"
              => friend_requests'[i].status = friend_requests[i].status]_vars

\* C3: respond_request by the receiver on a request that is not pending
\* does not report success and leaves the ledger unchanged.
C3_ResolveNonPendingFails ==
    [][( /\ request'.route = "respond_request"
         /\ request'.arg[2] \in {"accept", "reject"}
         /\ \E r \in Range(friend_requests) :
               /\ r.id = request'.arg[1]
               /\ r.receiver_id = request'.uid
               /\ r.status # "pending" )
       => /\ response' \notin {"Friend request accepted.", "Friend request rejected."}
          /\ friend_requests' = friend_requests]_vars

\* C4: respond_request by a caller who is not the request's receiver, or for
\* an id that names no request, reports "Request not found." and changes no
\* table and no stored file.
C4_OnlyReceiverResolves ==
    [][( /\ request'.route = "respond_request"
         /\ request'.arg[2] \in {"accept", "reject"}
         /\ ~\E r \in Range(friend_requests) :
                r.id = request'.arg[1] /\ r.receiver_id = request'.uid )
       => /\ response' = "Request not found."
          /\ UNCHANGED <<db, uploads>>]_vars

\* C4 witness: the sender of a request tried to resolve it and was refused.
C4_Witness ==
    /\ request.route = "respond_request"
    /\ request.arg[2] \in {"accept", "reject"}
    /\ response = "Request not found."
    /\ \E r \in Range(friend_requests) :
          r.id = request.arg[1] /\ r.sender_id = request.uid

\* C5: send_request(A, B) with A # B, when an A->B row exists in any status,
\* reports "Friend request already sent." and adds no row.
C5_DuplicateProposeFails ==
    [][( /\ request'.route = "send_request"
         /\ request'.uid # request'.arg[1]
         /\ \E r \in Range(friend_requests) :
               r.sender_id = request'.uid /\ r.receiver_id = request'.arg[1] )
       => /\ response' = "Friend request already sent."
          /\ friend_requests' = friend_requests]_vars

\* C5 witness: a repeated send_request was refused while the existing row
\* was already accepted or rejected.
C5_Witness ==
    /\ request.route = "send_request"
    /\ response = "Friend request already sent."
    /\ \E r \in Range(friend_requests) :
          /\ r.sender_id = request.uid
          /\ r.receiver_id = request.arg[1]
          /\ r.status # "pending"

\* C6: send_request(B, A) with A # B, when an A->B row exists and no B->A
\* row does, reports success and appends a pending B->A row; the A->B row
\* stays as it was.
C6_ReverseProposeSucceeds ==
    [][( /\ request'.route = "send_request"
         /\ request'.uid # request'.arg[1]
         /\ \E r \in Range(friend_requests) :
               r.sender_id = request'.arg[1] /\ r.receiver_id = request'.uid
         /\ ~\E r \in Range(friend_requests) :
               r.sender_id = request'.uid /\ r.receiver_id = request'.arg[1] )
       => /\ response' = "Friend request sent!"
          /\ Len(friend_requests') = Len(friend_requests) + 1
          /\ SubSeq(friend_requests', 1, Len(friend_requests)) = friend_requests
          /\ LET new == friend_requests'[Len(friend_requests')]
             IN  /\ new.sender_id = request'.uid
                 /\ new.receiver_id = request'.arg[1]
                 /\ new.status = "pending"]_vars

\* C6 witness: the newest row is the pending reverse of an older row that
\* is no longer pending.
C6_Witness ==
    /\ request.route = "send_request"
    /\ response = "Friend request sent!"
    /\ \E r \in Range(friend_requests) :
          /\ r.sender_id = request.arg[1]
          /\ r.receiver_id = request.uid
          /\ r.status # "pending"
    /\ friend_requests[Len(friend_requests)].sender_id = request.uid
    /\ friend_requests[Len(friend_requests)].receiver_id = request.arg[1]

\* C7: send_request to oneself is always refused, and no row of the ledger
\* has its sender as its receiver.
C7_NoSelfRequest ==
    /\ (request.route = "send_request" /\ request.arg[1] = request.uid)
          => response = "You cannot send a friend request to yourself."
    /\ \A r \in Range(friend_requests) : r.sender_id # r.receiver_id

\* C7 witness: a user sent a request to themselves while the ledger held rows.
C7_Witness ==
    /\ request.route = "send_request"
    /\ request.arg[1] = request.uid
    /\ friend_requests # <<>>

\* C8: friendship is symmetric, and an accept makes sender and receiver of
\* the accepted request friends of each other.
C8_FriendshipSymmetric ==
    /\ \A A \in session_uids, B \in session_uids :
          B \in friends_of(A) <=> A \in friends_of(B)
    /\ accepted_now =>
          /\ responded.receiver_id \in friends_of(responded.sender_id)
          /\ responded.sender_id \in friends_of(responded.receiver_id)

\* C8 witness: a receiver has just accepted a request.
C8_Witness ==
    /\ accepted_now
    /\ responded.receiver_id = request.uid
    /\ responded.receiver_id \in friends_of(responded.sender_id)

\* The reverse of the request just responded to is in the ledger as accepted.
reverse_accepted ==
    \E r \in Range(friend_requests) :
        /\ r.sender_id = responded.receiver_id
        /\ r.receiver_id = responded.sender_id
        /\ r.status = "accepted"

\* C9 as claimed: after a reject of A->B succeeds, B is no friend of A and
\* A is no friend of B.
C9_RejectedNotFriends ==
    rejected_now =>
        /\ responded.receiver_id \notin friends_of(responded.sender_id)
        /\ responded.sender_id \notin friends_of(responded.receiver_id)

\* C9 amended: after a reject of A->B succeeds, B is a friend of A (and A of
\* B) exactly when the reverse request B->A is accepted; the rejected request
\* itself makes no friendship.
C9_RejectedFriendsOnlyByReverse ==
    rejected_now =>
        /\ responded.receiver_id \in friends_of(responded.sender_id)
              <=> reverse_accepted
        /\ responded.sender_id \in friends_of(responded.receiver_id)
              <=> reverse_accepted

\* C9 witness: a reject succeeded on A->B while the reverse request B->A is
\* accepted, so that A and B are friends all the same.
C9_Witness ==
    /\ rejected_now
    /\ responded.receiver_id = request.uid
    /\ reverse_accepted
    /\ responded.receiver_id \in friends_of(responded.sender_id)

\* C10: an upload creates the photo, and every user tagged on it is a
\* friend of the uploader at upload time.
C10_TagsOnlyFriends ==
    (request.route = "upload_photo" /\ response = "Photo uploaded successfully!")
        => /\ \E p \in photos : p.id = photos_seq /\ p.uploader_id = request.uid
           /\ \A pt \in BagToSet(photo_tags) :
                 pt[1] = photos_seq => pt[2] \in friends_of(request.uid)

\* ------------------------------------------------------------------ C11
\* C11: apart from the photo_detail lookup by id, no operation shows a photo
\* to a viewer who is neither its owner nor a friend of its owner: every photo
\* a profile page lists for a logged-in viewer is the viewer's own or a
\* friend's, and /uploads/<filename> serves the file of a photo only to its
\* owner and the owner's friends (viewer 0 is a client with no session).
\* The source lists every photo of the profile's user to any logged-in viewer
\* and serves every stored file to any client.
C11_OnlyFeedExposesPhotos ==
    /\ \A uid \in session_uids : \A u \in Range(users) :
          \A s \in profile_photos(uid, u.username) : \A i \in DOMAIN s :
             s[i].uploader_id \in {uid} \cup friends_of(uid)
    /\ \A viewer \in session_uids \cup {0} : \A p \in photos :
          uploaded_file(p.filename) # {}
             => viewer \in {p.uploader_id} \cup friends_of(p.uploader_id)

\* ------------------------------------------------------------------ C12
\* C12: a delete of a photo id that names no photo, or a photo the requester
\* does not own, answers "Photo not found or permission denied." and leaves
\* every photo row, every tag row and every stored file as it was.
C12_DeleteByNonOwnerChangesNothing ==
    [][(/\ request'.route = "delete_photo"
        /\ ~\E p \in photos :
              p.id = request'.arg[1] /\ p.uploader_id = request'.uid)
       => /\ response' = "Photo not found or permission denied."
          /\ UNCHANGED <<photos, photo_tags, uploads>>]_vars

\* A user who is not the owner asked to delete an existing, tagged photo and
\* was refused.
C12_Witness ==
    /\ request.route = "delete_photo"
    /\ response = "Photo not found or permission denied."
    /\ \E p \in photos :
          /\ p.id = request.arg[1]
          /\ p.uploader_id # request.uid
          /\ \E pt \in BagToSet(photo_tags) : pt[1] = p.id
          /\ p.filename \in uploads

\* ------------------------------------------------------------------ C13
\* C13: a delete by the owner answers "Photo deleted.", removes the photo
\* row, every tag row of that photo and the photo's stored file, and changes
\* no other photo row, tag row or stored file; it does so whether or not the
\* file is still in the upload folder.
C13_DeleteByOwnerRemovesAll ==
    [][\A p \in photos :
         (/\ request'.route = "delete_photo"
          /\ request'.arg[1] = p.id
          /\ request'.uid = p.uploader_id)
         => /\ response' = "Photo deleted."
            /\ photos' = photos \ {p}
            /\ \A pt \in DOMAIN photo_tags' : pt[1] # p.id
            /\ \A pt \in DOMAIN photo_tags :
                  pt[1] # p.id => /\ pt \in DOMAIN photo_tags'
                                  /\ photo_tags'[pt] = photo_tags[pt]
            /\ DOMAIN photo_tags' \subseteq DOMAIN photo_tags
            /\ uploads' = uploads \ {p.filename}]_vars

\* Both uploads were stored at clock value 0 under the one name secure_filename
\* gives every accepted file of Files, so they shared one stored file; both
\* photos have been deleted, the second one with its file already gone.
C13_Witness ==
    /\ photos_seq = 2
    /\ now = 0
    /\ photos = {}
    /\ uploads = {}
    /\ request.route = "delete_photo"
    /\ response = "Photo deleted."

\* ------------------------------------------------------------------ C14
\* C14: the /photos listing of a viewer holds every existing photo whose
\* owner is the viewer or a current friend of the viewer, each exactly once,
\* in non-increasing order of uploaded_at.
C14_FeedCompleteAndOrdered ==
    \A uid \in session_uids :
        /\ all_photos(uid) # {}
        /\ \A s \in all_photos(uid) :
              /\ \A p \in photos :
                    p.uploader_id \in {uid} \cup friends_of(uid)
                       => Cardinality({i \in DOMAIN s : s[i].id = p.id}) = 1
              /\ \A i, j \in DOMAIN s :
                    i < j => s[i].uploaded_at >= s[j].uploaded_at

\* A viewer's listing holds an own photo and a friend's photo uploaded at
\* different times.
C14_Witness ==
    \E uid \in session_uids : \E s \in all_photos(uid) :
        /\ Len(s) = 2
        /\ s[1].uploaded_at > s[2].uploaded_at
        /\ {s[1].uploader_id, s[2].uploader_id} \cap friends_of(uid) # {}
        /\ uid \in {s[1].uploader_id, s[2].uploader_id}

\* ------------------------------------------------------------------ C15
\* C15: a send_request, respond_request, upload_photo or delete_photo that
\* fails leaves the persisted rows and the stored files exactly as they were.
\* The source saves the file before it inserts the photo row and removes it
\* before it deletes the rows, with no rollback of the file operation.
C15_NoPartialStateOnFailure ==
    [][(/\ request'.route \in {"send_request", "respond_request",
                               "upload_photo", "delete_photo"}
        /\ response' \notin {"Friend request sent!", "Friend request accepted.",
                             "Friend request rejected.",
                             "Photo uploaded successfully!", "Photo deleted."})
       => UNCHANGED <<db, uploads>>]_vars

\* ------------------------------------------------------------------ C16
\* C16: a friend request whose status is no longer pending never has the
\* status pending again, whatever request is handled next.
C16_NeverBackToPending ==
    [][\A i \in 1..Len(friend_requests) :
          friend_requests[i].status # "pending"
              => /\ i <= Len(friend_requests')
                 /\ friend_requests'[i].status # "pending"]_vars

\* Every request of the ledger has been resolved, and the request handled
\* last was a respond_request by the receiver of one of them, which is still
\* resolved.
C16_Witness ==
    /\ request.route = "respond_request"
    /\ response \in {"Friend request accepted.", "Friend request rejected."}
    /\ Len(friend_requests) = LedgerRequests
    /\ \A r \in Range(friend_requests) : r.status \in {"accepted", "rejected"}
    /\ friend_requests[request.arg[1]].receiver_id = request.uid

\* ------------------------------------------------------------------ C17
\* C17: the dashboard's incoming list of a user holds exactly the requests
\* whose receiver is that user and whose status is pending, each once, in
\* non-increasing order of created_at.
C17_IncomingExactAndOrdered ==
    \A uid \in session_uids :
        /\ incoming(uid) # {}
        /\ \A s \in incoming(uid) :
              /\ {s[i].id : i \in DOMAIN s}
                    = {r.id : r \in {q \in Range(friend_requests) :
                                       q.receiver_id = uid /\ q.status = "pending"}}
              /\ \A i, j \in DOMAIN s : i # j => s[i].id # s[j].id
              /\ \A i, j \in DOMAIN s :
                    i < j => friend_requests[s[i].id].created_at
                                >= friend_requests[s[j].id].created_at

\* A user has two pending incoming requests created at different times; the
\* list shows the later one first.
C17_Witness ==
    \E uid \in session_uids : \E s \in incoming(uid) :
        /\ Len(s) = 2
        /\ s[1].created_at > s[2].created_at
        /\ s[1].id > s[2].id

\* ------------------------------------------------------------------ C18
\* C18: the friends page's sent list of a user holds exactly the requests
\* that user sent and that are still pending, the most recent first.  The
\* source's query has no ORDER BY, so the order of its rows is open.
C18_SentExactAndOrdered ==
    \A uid \in session_uids :
        \A s \in sent(uid) :
            /\ {s[i].id : i \in DOMAIN s}
                  = {r.id : r \in {q \in Range(friend_requests) :
                                     q.sender_id = uid /\ q.status = "pending"}}
            /\ \A i, j \in DOMAIN s : i # j => s[i].id # s[j].id
            /\ \A i, j \in DOMAIN s :
                  i < j => friend_requests[s[i].id].created_at
                              >= friend_requests[s[j].id].created_at

\* ------------------------------------------------------------------ C19
\* C19: for every logged-in viewer, friend of the owner or not, the detail
\* page of an existing photo id shows that photo and the users tagged in it;
\* for an id that names no photo it answers "Photo not found.".
C19_PhotoDetailNotGated ==
    \A uid \in session_uids : \A photo_id \in 1..(photos_seq + 1) :
        LET page == photo_detail(uid, photo_id)
        IN  IF \E p \in photos : p.id = photo_id
            THEN /\ page.flash = ""
                 /\ \E p \in photos :
                       /\ p.id = photo_id
                       /\ page.photo =
                            {[id |-> p.id, uploader_id |-> p.uploader_id,
                              filename |-> p.filename, caption |-> p.caption,
                              uploaded_at |-> p.uploaded_at,
                              username |-> username_of(p.uploader_id)]}
                 /\ DOMAIN page.tagged
                       = {username_of(pt[2]) :
                            pt \in {x \in BagToSet(photo_tags) : x[1] = photo_id}}
            ELSE /\ page.flash = "Photo not found."
                 /\ page.photo = {}

\* A logged-in user who is neither the owner nor a friend of the owner is
\* shown a photo with a tagged user.
C19_Witness ==
    \E uid \in session_uids : \E p \in photos :
        /\ uid # p.uploader_id
        /\ uid \notin friends_of(p.uploader_id)
        /\ photo_detail(uid, p.id).flash = ""
        /\ photo_detail(uid, p.id).tagged # EmptyBag

\* ------------------------------------------------------------------ C20
\* C20: photo_tags never holds two rows for one (photo_id, user_id); an
\* upload of an accepted file whose tag_friends list names one existing user
\* several times succeeds, creates the photo, and tags that user in it once.
C20_OneTagRowPerPhotoAndUser ==
    [][/\ \A pt \in DOMAIN photo_tags' : photo_tags'[pt] = 1
       /\ (/\ request'.route = "upload_photo"
           /\ response' \notin
                 {"Please select a photo to upload.",
                  "File type not allowed. Use PNG, JPG, GIF, or WEBP."})
          => \A i, j \in DOMAIN request'.tag_friends :
               \A n \in int(request'.tag_friends[i]) :
                 (i # j /\ n \in int(request'.tag_friends[j]) /\ user_exists(n))
                 => /\ response' = "Photo uploaded successfully!"
                    /\ photos_seq' = photos_seq + 1
                    /\ \E p \in photos' \ photos :
                          p.id = photos_seq' /\ p.uploader_id = request'.uid
                    /\ CopiesIn(<<photos_seq', n>>, photo_tags') = 1]_vars

\* An upload named a friend of the uploader twice in tag_friends; the new
\* photo exists and has one tag row for that friend.
C20_Witness ==
    /\ request.route = "upload_photo"
    /\ response = "Photo uploaded successfully!"
    /\ \E p \in photos : p.id = photos_seq
    /\ \E i, j \in DOMAIN request.tag_friends :
          \E n \in int(request.tag_friends[i]) :
             /\ i # j
             /\ n \in int(request.tag_friends[j])
             /\ n \in friends_of(request.uid)
             /\ CopiesIn(<<photos_seq, n>>, photo_tags) = 1

\* ------------------------------------------------------------------ C21
\* C21: a Counter's value never leaves the bounds it was built with; an
\* increment (decrement) that would pass max_value (min_value) ends exactly
\* on the bound; a reset that raises ValueError leaves the value as it was.
C21_CounterStaysWithinBounds ==
    /\ [](/\ \A mn \in counter.min_value : mn <= counter.value
          /\ \A mx \in counter.max_value : counter.value <= mx)
    /\ [][/\ counter'.call = "increment"
             => \A mx \in counter.max_value :
                  counter'.value = IF counter.value + counter.step > mx
                                   THEN mx ELSE counter.value + counter.step
          /\ counter'.call = "decrement"
             => \A mn \in counter.min_value :
                  counter'.value = IF counter.value - counter.step < mn
                                   THEN mn ELSE counter.value - counter.step
          /\ counter'.raised = "ValueError" => counter'.value = counter.value]_vars

\* The step is wider than the distance between the bounds, so the increment
\* handled last was clamped to max_value whatever the value was before.
C21_Witness ==
    /\ counter # <<>>
    /\ counter.call = "increment"
    /\ \E mn \in counter.min_value, mx \in counter.max_value :
          /\ counter.step > mx - mn
          /\ counter.value = mx

\* ------------------------------------------------------------------ C22
\* C22: a HistoryTracker built with max_entries = N never holds more than N
\* entries, and its entries are the last min(N, k) of the k entries recorded
\* successfully since the last clear, in the order they were recorded.
C22_RollingWindow ==
    \A N \in history.max_entries :
        LET k == Len(history.recorded)
        IN  /\ Len(history.entries) <= N
            /\ history.entries
                  = SubSeq(history.recorded, k - Min(N, k) + 1, k)

\* A full tracker has recorded more than max_entries entries since the last
\* clear, the evicted one differs from what is kept, and the call handled
\* last was a record that raised.
C22_Witness ==
    /\ history # <<>>
    /\ \E N \in history.max_entries :
          /\ Len(history.recorded) > N
          /\ Len(history.entries) = N
          /\ history.recorded[1] # history.entries[1]
    /\ history.raised = "ValueError"

\* ------------------------------------------------------------------ C23
\* C23: whatever the threads' get_connection and return_connection calls
\* interleave to, the pool never has more than max_connections active
\* connections, no connection is held by two threads, none is both active
\* and available or available twice; a get_connection that raises
\* TimeoutError leaves the active and the available connections as they were.
C23_PoolWithinLimit ==
    /\ [](/\ Cardinality(pool.active_connections) <= pool.max_connections
          /\ pool.active_connections \cap Range(pool.available_connections) = {}
          /\ \A i, j \in DOMAIN pool.available_connections :
                i # j => pool.available_connections[i] # pool.available_connections[j]
          /\ \A c, d \in Callers :
                c # d => callers[c].held \cap callers[d].held = {}
          /\ \A c \in Callers :
                callers[c].held \cap Range(pool.available_connections) = {})
    /\ [][\A c \in Callers :
            (/\ callers'[c] # callers[c]
             /\ callers'[c].held = callers[c].held
             /\ callers'[c].pc = "idle"
             /\ callers'[c].result = "TimeoutError")
            => /\ pool'.active_connections = pool.active_connections
               /\ pool'.available_connections = pool.available_connections]_vars

\* The pool is open and exhausted, a connection has been returned and taken
\* again, and a thread that waited has got TimeoutError.
C23_Witness ==
    /\ pool # <<>>
    /\ ~pool.is_closed
    /\ Cardinality(pool.active_connections) = pool.max_connections
    /\ pool.connection_counter = pool.max_connections
    /\ pool.max_connections = PoolMax
    /\ \E c \in Callers :
          /\ callers[c].pc = "idle"
          /\ callers[c].result = "TimeoutError"
          /\ callers[c].waited
    /\ \E c \in Callers : callers[c].pc = "waiting"

\* ------------------------------------------------------------------ C24
\* Thread c is inside get_connection, in wait() or on its way out of it.
blocked(c) == callers[c].pc \in {"waiting", "woken"}

\* The open pool has an available connection or room for a new one.
has_room ==
    /\ ~pool.is_closed
    /\ \/ pool.available_connections # <<>>
       \/ Cardinality(pool.active_connections) < pool.max_connections

\* C24 as stated: once a connection has come back to the open pool while
\* threads were blocked with time left, one of the threads that had to wait
\* obtains a connection (unless the pool is closed meanwhile), and no thread
\* stays blocked while the pool has room.  A thread that calls
\* get_connection afresh can take the lock, and the connection, before the
\* woken threads do.
C24_BlockedCallerObtains ==
    /\ (has_room /\ \E c \in Callers : callers[c].pc = "woken" /\ ~callers[c].expired)
          ~> (\/ pool.is_closed
              \/ \E c \in Callers : /\ callers[c].pc = "idle"
                                     /\ callers[c].waited
                                     /\ callers[c].result = "conn")
    /\ \A c \in Callers : (blocked(c) /\ has_room) ~> ~(blocked(c) /\ has_room)

\* C24, amended: a return to the open pool wakes every waiting thread, so no
\* thread is in wait() while the pool has room, and under fair scheduling no
\* thread stays blocked while the pool has room: it gets a connection, or the
\* room is taken by another thread and it waits again or raises TimeoutError.
C24_NoCallerStaysBlocked ==
    /\ [](has_room => \A c \in Callers : callers[c].pc # "waiting")
    /\ \A c \in Callers : (blocked(c) /\ has_room) ~> ~(blocked(c) /\ has_room)

\* A connection is available in the open pool and a thread whose timeout has
\* not expired has been woken for it.
C24_Witness ==
    /\ pool # <<>>
    /\ ~pool.is_closed
    /\ pool.available_connections # <<>>
    /\ \E c \in Callers : callers[c].pc = "woken" /\ ~callers[c].expired

\* ------------------------------------------------------------------ C25
\* C25: a refresh_access_token call that is rejected with "Token refresh
\* already in progress" adds one to refresh_attempts.  The source raises
\* before it counts.
C25_RejectedRefreshCounts ==
    [][\A t \in Tasks :
         (/\ tasks[t].pc = "idle"
          /\ tasks[t].result # "Token refresh already in progress"
          /\ tasks'[t].result = "Token refresh already in progress")
         => oauth'.refresh_attempts = oauth.refresh_attempts + 1]_vars

\* ------------------------------------------------------------------ C26
\* C26: at most one task is inside a refresh; when a refresh that started
\* ends, with a token or with an exception, refresh_in_progress is false and
\* refresh_attempts is one more than when the task called; the flag is set
\* only while a refresh is in flight, so no finished refresh blocks a later
\* one.
C26_OneRefreshInFlight ==
    /\ [](/\ Cardinality({t \in Tasks : tasks[t].pc = "in flight"}) <= 1
          /\ oauth.refresh_in_progress
                <=> \E t \in Tasks : tasks[t].pc = "in flight")
    /\ [][\A t \in Tasks :
            (tasks[t].pc = "in flight" /\ tasks'[t].pc = "idle")
            => /\ ~oauth'.refresh_in_progress
               /\ oauth'.refresh_attempts = tasks[t].seen + 1
               /\ tasks'[t].result \in Outcomes]_vars

\* A refresh ended with an exception while the other task had been rejected
\* during it; the flag is clear and one attempt was counted.
C26_Witness ==
    /\ oauth # <<>>
    /\ ~oauth.refresh_in_progress
    /\ \E t, u \in Tasks :
          /\ tasks[t].pc = "idle"
          /\ tasks[t].result = "TimeoutError"
          /\ oauth.refresh_attempts = tasks[t].seen + 1
          /\ tasks[u].result = "Token refresh already in progress"
          /\ tasks[u].seen = oauth.refresh_attempts

\* SELECT id FROM users: the ids of the registered users.
users_ids == {u.id : u \in Range(users)}

\* ------------------------------------------------------------------ C27
\* C27: in every reachable state the sender and the receiver of every friend
\* request, the uploader of every photo and the user of every tag row are
\* registered users; a send_request to a receiver id that names no user
\* leaves friend_requests as it was, and an upload leaves no tag row for a
\* tag candidate that names no user.
C27_ReferencesToUsersHold ==
    /\ [](/\ \A r \in Range(friend_requests) :
                r.sender_id \in users_ids /\ r.receiver_id \in users_ids
          /\ \A p \in photos : p.uploader_id \in users_ids
          /\ \A pt \in BagToSet(photo_tags) : pt[2] \in users_ids)
    /\ [][/\ (request'.route = "send_request" /\ request'.arg[1] \notin users_ids)
              => friend_requests' = friend_requests
          /\ request'.route = "upload_photo"
              => \A i \in DOMAIN request'.tag_friends :
                   \A n \in int(request'.tag_friends[i]) :
                     n \notin users_ids
                     => \A pt \in BagToSet(photo_tags') : pt[2] # n]_vars

\* A photo was just uploaded with a tag candidate that names no user: the
\* photo row is there, no tag row is, and a friend request is on the ledger.
C27_Witness ==
    /\ request.route = "upload_photo"
    /\ response = "Photo uploaded successfully!"
    /\ \E i \in DOMAIN request.tag_friends :
          \E n \in int(request.tag_friends[i]) : n \notin users_ids
    /\ photos # {}
    /\ photo_tags = EmptyBag
    /\ friend_requests # <<>>

\* SELECT id FROM photos: the ids of the stored photos.
photos_ids == {p.id : p \in photos}

\* ------------------------------------------------------------------ C28
\* C28: in every reachable state every tag row names a stored photo; a tag
\* row appears only in the upload that creates its photo and disappears only
\* in the delete of its photo; register, send_request and respond_request
\* leave photo_tags as it was.
C28_NoOrphanTags ==
    /\ [](\A pt \in BagToSet(photo_tags) : pt[1] \in photos_ids)
    /\ [][/\ \A pt \in BagToSet(photo_tags') \ BagToSet(photo_tags) :
                /\ request'.route = "upload_photo"
                /\ pt[1] \notin photos_ids
                /\ pt[1] \in {p.id : p \in photos'}
          /\ \A pt \in BagToSet(photo_tags) \ BagToSet(photo_tags') :
                /\ request'.route = "delete_photo"
                /\ pt[1] = request'.arg[1]
                /\ pt[1] \in photos_ids
                /\ pt[1] \notin {p.id : p \in photos'}
          /\ request'.route \in {"register", "send_request", "respond_request"}
                => photo_tags' = photo_tags]_vars

\* Two photos carry tags of the other user, and the only friend request
\* between the two users has just been rejected.
C28_Witness ==
    /\ request.route = "respond_request"
    /\ response = "Friend request rejected."
    /\ Cardinality(photos) = 2
    /\ \A p \in photos :
          \E pt \in BagToSet(photo_tags) :
            pt[1] = p.id /\ pt[2] # p.uploader_id

\* ------------------------------------------------------------------ C29
\* C29: for every session user and every other user's profile page, the
\* row rel that the page gets has status accepted exactly when the user of
\* the page is among the viewer's friends, and a page with no rel is not a
\* friend's; with a row in each direction too.  Whichever row fetchone()
\* returns must agree.
C29_RelAgreesWithFriends ==
    \A uid \in session_uids, user \in Range(users) :
        user.id # uid =>
          /\ \A r \in rel(uid, user.username) :
                r.status = "accepted" <=> user.id \in friends_of(uid)
          /\ rel(uid, user.username) = {} => user.id \notin friends_of(uid)

\* ------------------------------------------------------------------ C30
\* C30: however the statements of the threads' send_request calls
\* interleave, a call from a user to another registered user ends with
\* "Friend request sent!" or with "Friend request already sent.", never with
\* an unhandled exception, and when it ends the ledger holds exactly one
\* request from that user to that receiver.
C30_ConcurrentProposeOneRecord ==
    [][\A w \in Workers :
         (/\ workers[w].pc # "done"
          /\ workers'[w].pc = "done"
          /\ workers[w].uid # workers[w].receiver_id
          /\ workers[w].receiver_id \in users_ids)
         => /\ workers'[w].response \in
                 {"Friend request sent!", "Friend request already sent."}
            /\ Cardinality({r \in Range(friend_requests') :
                              /\ r.sender_id = workers[w].uid
                              /\ r.receiver_id = workers[w].receiver_id}) = 1]_vars

====
